---- MODULE Spec2Model ----
(***************************************************************************)
(* Moving-average crossover backtest of 2050stratery.py / strategy.py:     *)
(* simulate_strategy replayed bar by bar.                                  *)
(*                                                                         *)
(* Prices are whole numbers of the price unit.  Money (balance, cost,      *)
(* income, sell price) is held in hundredths of the price unit, so that    *)
(* 1.09 * buy_price and 0.94 * buy_price are whole numbers and every       *)
(* comparison and product of the source is exact.  Dates are day numbers.  *)
(***************************************************************************)
EXTENDS Integers, Sequences, FiniteSets, TLC

\* ---- bounds of the model ------------------------------------------------
MaxBars == 9            \* rows of stock_df that are replayed
MaxWindow == 3          \* largest moving-average window that is tried
TableLen == 6           \* rows of a stock_df that is held as a whole table
MaxTicks == 5           \* rows of the tick table of the grid backtest
MaxDays == 2            \* days that main_control_loop is followed through
MaxFailures == 5        \* largest consecutive_failures, and the largest
                        \* failure_threshold, of a controller

\* ---- constants of the program -------------------------------------------
Scale == 100            \* hundredths of the price unit per price unit
UpPct == 109            \* take-profit level, 1.09 * buy_price
DownPct == 94           \* stop-loss level, 0.94 * buy_price
LotSize == 100          \* (balance // buy_price) // 100 * 100
CooldownDays == 60      \* timedelta(days=60)
LossLimit == 2          \* consecutive_losses >= 2
DefaultBalance == 100000
InitialMarketValueTarget == 1000000   \* rangetest.py: worth of the position
InitialCash == 1000000                \* rangetest.py: cash = 1000000
TransactionValueTarget == 10000       \* rangetest.py: worth of one trade
StartHour == 17         \* auto_analyze_stocks.py: is_execution_time
EndHour == 6
CodeWidth == 6          \* auto_analyze_stocks.py: stock_code.zfill(6)
NormalMin == 60         \* APICallIntervalController: normal_min, seconds
NormalMax == 120
ExtendedMin == 120
ExtendedMax == 240
FailureWaitTime == 900  \* failure_wait_time
FailureThreshold == 3   \* failure_threshold
MAX_RETRIES == 3        \* anaByQwen2.py
RETRY_DELAY == 20
DownloadRetries == 5    \* 2050stratery.py: retries=5

\* ---- inputs that are enumerated -----------------------------------------
Prices == {800, 900, 1100}      \* open, high and low of a bar
Closes == {800, 900}            \* close of a bar: two values give every
                                \* order of the two means, equality included
Gaps == {1, CooldownDays}       \* days from one bar to the next
NoDate == -1                    \* last_loss_date = None
NoBar == [name |-> NoDate, open |-> 0, high |-> 0, low |-> 0, close |-> 0]
NoPrint == [side |-> "-", shares |-> 0, price |-> 0, balance |-> 0,
            row |-> NoBar]
NoWindows == <<-1, -1>>
NaN == -1                       \* a rolling mean that is not defined
NoTable == [rows |-> <<>>, ma |-> <<>>]
NoRun == [balance |-> 0, shares |-> 0, buy_price |-> 0,
          consecutive_losses |-> 0, last_loss_date |-> NoDate,
          side |-> "-", qty |-> 0, price |-> 0]
NoResult == [trace |-> <<>>, balance |-> -1, shares |-> -1]

\* the rows of a whole table: a falling bar and a rising bar; rows are
\* dated on consecutive days, row k on day k
TableBars ==
  { [open |-> 900, high |-> 900, low |-> 800, close |-> 800],
    [open |-> 800, high |-> 900, low |-> 800, close |-> 900] }
TableWindows == {<<1, 2>>}
NoSell == [date |-> NoDate, loss |-> FALSE, prev_loss |-> FALSE]

\* A row of stock_df is read field by field.  The name (date) and the close
\* of today are always read; the open is read by the BUY branch only; the
\* high and the low are read only when shares > 0 ("shares > 0 and (...)").
\* A field that is not read is left 0 in the row: it cannot matter, and any
\* open, or any low <= close <= high, completes the row to a bar.
BuyRows(name, close) ==
  { [name |-> name, open |-> o, high |-> 0, low |-> 0, close |-> close] :
      o \in Prices }

SellRows(name, close) ==
  { [name |-> name, open |-> 0, high |-> h, low |-> l, close |-> close] :
      <<h, l>> \in { t \in Prices \X Prices : t[2] <= close /\ close <= t[1] } }

\* -- the grid backtest of rangetest.py; prices and money in whole yuan
BasePrices == {10}                    \* close of the day before the ticks
TickPrices == {1940, 1970, 1990, 2000}
BuyPercent == 1                       \* buy_percent, a = buy_percent / 100
SellPercent == 1                      \* sell_percent, b = sell_percent / 100
CommissionPer10k == 3                 \* commission_rate = 0.0003
StampDutyPer10k == 10                 \* stamp_duty_rate = 0.001
NoTime == -1                          \* last_transaction_time = None

\* -- main_control_loop of auto_analyze_stocks.py
HourSlots == <<0, 5, 6, 16, 17, 23>>  \* the hours of a day that are told apart
StockCodes == {1, 600000}             \* the stocks 000001 and 600000
Modes == {"high_turnover", "all_random"}
NoMode == "-"                         \* last_analysis_mode = None
NoCode == <<>>
NoAnalysis == [code |-> NoCode, ok |-> FALSE, repeat |-> FALSE]

\* -- the retry wrappers
ApiValues == {"rows_a", "rows_b"}     \* what a call of the API may give
ApiErrors == {"TimeoutError", "Exception"}
NoValue == "-"                        \* nothing was returned

VARIABLES
  pc,                 \* "execute": execute_strategy called; "raised": it
                      \* raised ValueError; "rows": simulate_strategy
                      \* called, before the loop; "loop"; "done": returned;
                      \* "valued": the open position valued
  num_stocks,         \* strategy['stockNum']
  ma_short, ma_long,  \* the two windows
  given,              \* the two windows as the last step found them, when
                      \* that step was the check of the configuration
  initial_balance,    \* parameter, in price units
  i,                  \* index of the next row of stock_df
  closes,             \* close of the trailing rows before row i
  date,               \* today.name of the row processed last
  balance, shares, transactions, buy_price,
  consecutive_losses, last_loss_date,
  last_print,         \* the line printed while processing the last row,
                      \* if any, with the row as the branch has read it
  fills,              \* number of B/S lines with a positive quantity so far
  last_side,          \* side of the latest of them ("-" before the first)
  last_sell,          \* the latest S line: its date, whether it was a loss,
                      \* and whether the S line before it was a loss
  stock_value,        \* shares * current_stock_price, in hundredths
  \* -- simulate_strategy on a whole table, two calls side by side or one
  \* -- after the other
  stock_df,           \* the table: its rows and the ma columns added to it
  other_df,           \* a second table, equal to stock_df on rows 0..cut
  cut,
  run_a, run_b,       \* the locals of the call on stock_df and on other_df,
                      \* with the line printed for the last row
  run_no,             \* 1 or 2: which call on stock_df is running
  trace,              \* the B and S lines of the running call
  first,              \* what the first call printed and returned
  \* -- backtest_stock_strategy of rangetest.py
  base_price,
  stock_data,         \* the rows of the tick table gone through so far
  position, cash, current_price, last_transaction_time,
  final_close_price, final_market_value,
  \* -- main_control_loop of auto_analyze_stocks.py
  debug_mode,
  slot, current_date, \* the clock: HourSlots[slot] is the hour of the day
  all_stocks_df,      \* kind: how the code column holds a code ("str": the
                      \* text of 6 digits, "int": the number); high: the
                      \* stocks with a turnover above the threshold
  analyzed_records,   \* the keys of the dict: texts, as sequences of digits
  last_execution_time, last_analysis_mode, last_analysis_date,
  is_first_iteration,
  last_analysis,      \* the call of analyze_stock in the last iteration, if
                      \* any: the code passed, whether it succeeded, whether
                      \* the stock was in analyzed_records already
  is_new_cycle,       \* the flag of the last iteration
  record_file,        \* the keys that analyzed_stocks.json holds
  false_streak,       \* analyze_stock calls that returned False since the
                      \* last one that returned True, or since the start
  \* -- APICallIntervalController of auto_analyze_stocks.py
  failure_threshold,
  consecutive_failures, is_extended_interval,
  need_wait,          \* what the last record_failure returned
  interval,           \* what the last get_next_interval returned
  \* -- fetch_with_retry of anaByQwen2.py, get_stock_data_with_retry of
  \* -- 2050stratery.py
  func,               \* which of the two is running
  attempt,
  events,             \* the API calls, each with what it gave, and the sleeps
  result              \* what the function returned

vars == <<pc, num_stocks, ma_short, ma_long, given, initial_balance, i,
          closes, date, balance, shares, transactions, buy_price,
          consecutive_losses, last_loss_date, last_print, fills, last_side,
          last_sell, stock_value, stock_df, other_df, cut, run_a, run_b,
          run_no, trace, first, base_price, stock_data, position, cash,
          current_price, last_transaction_time, final_close_price,
          final_market_value, debug_mode, slot, current_date, all_stocks_df,
          analyzed_records, last_execution_time, last_analysis_mode,
          last_analysis_date, is_first_iteration, last_analysis,
          is_new_cycle, record_file, false_streak,
          failure_threshold, consecutive_failures, is_extended_interval,
          need_wait, interval, func, attempt, events, result>>

\* the variables of the retry wrappers
retry_vars == <<func, attempt, events, result>>

\* the fields of the interval controller
ic_vars == <<failure_threshold, consecutive_failures, is_extended_interval,
             need_wait, interval>>

\* the variables of the control loop
ctl_vars == <<debug_mode, slot, current_date, all_stocks_df,
              analyzed_records,
              last_execution_time, last_analysis_mode, last_analysis_date,
              is_first_iteration, last_analysis, is_new_cycle,
              record_file, false_streak>>

\* the variables of the grid backtest
grid_vars == <<base_price, stock_data, position, cash, current_price,
               last_transaction_time, final_close_price, final_market_value>>

\* the variables of the calls on whole tables
table_vars == <<stock_df, other_df, cut, run_a, run_b, run_no, trace, first>>

\* the variables that only the bar-by-bar replay uses
replay_vars == <<num_stocks, given, initial_balance, closes, date, balance,
                 shares, transactions, buy_price, consecutive_losses,
                 last_loss_date, last_print, fills, last_side, last_sell,
                 stock_value>>

\* ---- rolling means ------------------------------------------------------
RECURSIVE SumSeq(_)
SumSeq(s) == IF s = <<>> THEN 0 ELSE Head(s) + SumSeq(Tail(s))

\* rolling(window=w).mean() at row k is defined from row w-1 on (NaN before)
MaDefined(k, w) == k >= 0 /\ k - w + 1 >= 0

\* sum of the closes of rows k-w+1 .. k; row r is closes[r - (i - Len(closes)) + 1]
RollSum(k, w) ==
  LET base == i - Len(closes)
  IN  SumSeq(SubSeq(closes, k - w + 1 - base + 1, k - base + 1))

\* ma_short < ma_long at row k (False when either mean is NaN)
ShortBelowLong(k) ==
  /\ MaDefined(k, ma_short) /\ MaDefined(k, ma_long)
  /\ RollSum(k, ma_short) * ma_long < RollSum(k, ma_long) * ma_short

\* ma_short >= ma_long at row k (False when either mean is NaN)
ShortAtOrAboveLong(k) ==
  /\ MaDefined(k, ma_short) /\ MaDefined(k, ma_long)
  /\ RollSum(k, ma_short) * ma_long >= RollSum(k, ma_long) * ma_short

\* ma_short <= ma_long at row k (False when either mean is NaN)
ShortAtOrBelowLong(k) ==
  /\ MaDefined(k, ma_short) /\ MaDefined(k, ma_long)
  /\ RollSum(k, ma_short) * ma_long <= RollSum(k, ma_long) * ma_short

\* ma_short > ma_long at row k (False when either mean is NaN)
ShortAboveLong(k) ==
  /\ MaDefined(k, ma_short) /\ MaDefined(k, ma_long)
  /\ RollSum(k, ma_short) * ma_long > RollSum(k, ma_long) * ma_short

\* ---- the conditions and amounts of one loop iteration -------------------
InCooldown_Exclusive(d) ==
  last_loss_date # NoDate /\ d < last_loss_date + CooldownDays

InCooldown(d) ==
  last_loss_date # NoDate /\ d <= last_loss_date + CooldownDays

BuySignal_Pyramiding ==
  /\ i >= 2
  /\ ShortBelowLong(i - 2)
  /\ ShortAtOrAboveLong(i - 1)

\* the two comparisons written as negations, which a missing mean and a
\* missing row satisfy
BuySignal_MissingAsTrue ==
  /\ ~ShortAtOrAboveLong(i - 2)
  /\ ~ShortBelowLong(i - 1)
  /\ shares = 0

BuySignal_LaterStrict ==
  /\ i >= 2
  /\ ShortAtOrBelowLong(i - 2)
  /\ ShortAboveLong(i - 1)
  /\ shares = 0

BuySignal ==
  /\ i >= 2
  /\ ShortBelowLong(i - 2)
  /\ ShortAtOrAboveLong(i - 1)
  /\ shares = 0

BuyPrice_Close(bar) == bar.close

BuyPrice(bar) == bar.open

SharesToBuy_RoundUp(bal, price) ==
  ((bal \div (Scale * price)) \div LotSize + 1) * LotSize

SharesToBuy_NoLot(bal, price) == bal \div (Scale * price)

SharesToBuy(bal, price) == ((bal \div (Scale * price)) \div LotSize) * LotSize

TakeProfit(bar) == Scale * bar.high >= UpPct * buy_price
StopLoss(bar) == Scale * bar.low <= DownPct * buy_price

SellSignal(bar) == shares > 0 /\ (TakeProfit(bar) \/ StopLoss(bar))

SellPrice_StopFirst(bar) ==
  IF StopLoss(bar) THEN DownPct * buy_price ELSE UpPct * buy_price

SellPrice_AtHigh(bar) ==
  IF TakeProfit(bar) THEN Scale * bar.high ELSE DownPct * buy_price

SellPrice(bar) ==
  IF TakeProfit(bar) THEN UpPct * buy_price ELSE DownPct * buy_price

IsLoss(sell_price) == sell_price < Scale * buy_price

\* "if consecutive_losses >= 2", n the counter after its increment
StartsCooldown_FirstLoss(n) == n >= 1

StartsCooldown(n) == n >= LossLimit

\* "num_stocks < 1 or ma_short < 1 or ma_long < 1"
InvalidConfig(n, s, l) == n < 1 \/ s < 1 \/ l < 1

\* "if ma_short > ma_long: ma_short, ma_long = ma_long, ma_short"
SwapWindows_Keep(s, l) == <<s, l>>

SwapWindows(s, l) == IF s > l THEN <<l, s>> ELSE <<s, l>>

\* "stock_value = shares * current_stock_price"
StockValue(n, close) == n * Scale * close

\* the shares left by a SELL of n shares: a part of the position is kept
SharesAfterSell_Half(n) == n \div 2

\* "shares = 0" of the SELL branch
SharesAfterSell(n) == 0

Trim(s) == IF Len(s) > ma_long + 1 THEN SubSeq(s, Len(s) - ma_long, Len(s)) ELSE s

\* ---- actions ------------------------------------------------------------
NoCtl ==
  /\ debug_mode = FALSE /\ slot = 1 /\ current_date = 0
  /\ all_stocks_df = [kind |-> "str", high |-> {}]
  /\ analyzed_records = {}
  /\ last_execution_time = FALSE /\ last_analysis_mode = NoMode
  /\ last_analysis_date = 0 /\ is_first_iteration = TRUE
  /\ last_analysis = NoAnalysis
  /\ is_new_cycle = FALSE /\ record_file = {} /\ false_streak = 0

NoController ==
  /\ failure_threshold = FailureThreshold
  /\ consecutive_failures = 0 /\ is_extended_interval = FALSE
  /\ need_wait = FALSE /\ interval = 0

NoRetry == func = "-" /\ attempt = 0 /\ events = <<>> /\ result = NoValue

NoGrid ==
  /\ base_price = 0 /\ stock_data = <<>> /\ position = 0 /\ cash = 0
  /\ current_price = 0 /\ last_transaction_time = NoTime
  /\ final_close_price = 0 /\ final_market_value = 0

\* the replay is not running
NoReplay ==
  /\ num_stocks = 1 /\ given = NoWindows /\ initial_balance = DefaultBalance
  /\ closes = <<>> /\ date = NoDate /\ balance = 0 /\ shares = 0
  /\ transactions = <<>> /\ buy_price = 0 /\ consecutive_losses = 0
  /\ last_loss_date = NoDate /\ last_print = NoPrint /\ fills = 0
  /\ last_side = "-" /\ last_sell = NoSell /\ stock_value = 0

NoTables ==
  /\ stock_df = NoTable /\ other_df = NoTable /\ cut = 0
  /\ run_a = NoRun /\ run_b = NoRun
  /\ run_no = 0 /\ trace = <<>> /\ first = NoResult

Init ==
  /\ pc = "execute"
  /\ num_stocks \in 0..1
  /\ ma_short \in 0..MaxWindow /\ ma_long \in 0..MaxWindow
  /\ given = NoWindows
  /\ stock_value = 0
  /\ NoTables /\ NoGrid /\ NoCtl /\ NoController /\ NoRetry
  /\ initial_balance = DefaultBalance
  /\ i = 0
  /\ closes = <<>>
  /\ date = NoDate
  /\ balance = Scale * initial_balance
  /\ shares = 0
  /\ transactions = <<>>
  /\ buy_price = 0
  /\ consecutive_losses = 0
  /\ last_loss_date = NoDate
  /\ last_print = NoPrint
  /\ fills = 0
  /\ last_side = "-"
  /\ last_sell = NoSell

\* execute_strategy up to the call of simulate_strategy: the check of the
\* configuration, then the swap of the two windows
ExecuteStrategy ==
  /\ pc = "execute"
  /\ given' = <<ma_short, ma_long>>
  /\ IF InvalidConfig(num_stocks, ma_short, ma_long)
       THEN /\ pc' = "raised"
            /\ UNCHANGED <<ma_short, ma_long>>
       ELSE /\ pc' = "rows"
            /\ ma_short' = SwapWindows(ma_short, ma_long)[1]
            /\ ma_long' = SwapWindows(ma_short, ma_long)[2]
  /\ UNCHANGED <<num_stocks, initial_balance, i, closes, date, balance,
                 shares, transactions, buy_price, consecutive_losses,
                 last_loss_date, last_print, fills, last_side, last_sell,
                 stock_value>>
  /\ UNCHANGED <<table_vars, grid_vars, ctl_vars, ic_vars, retry_vars>>

\* row 0 only feeds the rolling means: the loop starts at row 1
FirstRow ==
  /\ pc = "rows"
  /\ \E close \in Closes : closes' = <<close>>
  /\ date' = 0
  /\ i' = 1
  /\ pc' = "loop"
  /\ given' = NoWindows
  /\ UNCHANGED <<num_stocks, ma_short, ma_long, initial_balance, balance,
                 shares, transactions, buy_price, consecutive_losses,
                 last_loss_date, last_print, fills, last_side, last_sell,
                 stock_value>>
  /\ UNCHANGED <<table_vars, grid_vars, ctl_vars, ic_vars, retry_vars>>

Skip ==
  /\ last_print' = NoPrint
  /\ UNCHANGED <<balance, shares, transactions, buy_price,
                 consecutive_losses, last_loss_date, fills, last_side,
                 last_sell>>

Buy(bar) ==
  /\ LET price == BuyPrice(bar)
         shares_to_buy == SharesToBuy(balance, price)
         cost == shares_to_buy * price * Scale
     IN  /\ buy_price' = price
         /\ balance' = balance - cost
         /\ shares' = shares + shares_to_buy
         /\ last_print' = [side |-> "B", shares |-> shares_to_buy,
                           price |-> Scale * price, balance |-> balance - cost,
                           row |-> bar]
         /\ fills' = IF shares_to_buy > 0 THEN fills + 1 ELSE fills
         /\ last_side' = IF shares_to_buy > 0 THEN "B" ELSE last_side
  /\ UNCHANGED <<transactions, consecutive_losses, last_loss_date, last_sell>>

Sell(bar) ==
  /\ LET sell_price == SellPrice(bar)
         income == shares * sell_price
     IN  /\ balance' = balance + income
         /\ last_print' = [side |-> "S", shares |-> shares,
                           price |-> sell_price, balance |-> balance + income,
                           row |-> bar]
         /\ shares' = SharesAfterSell(shares)
         /\ fills' = fills + 1
         /\ last_side' = "S"
         /\ last_sell' = [date |-> bar.name, loss |-> IsLoss(sell_price),
                          prev_loss |-> last_sell.loss]
         /\ IF IsLoss(sell_price)
              THEN /\ consecutive_losses' = consecutive_losses + 1
                   /\ last_loss_date' =
                        IF StartsCooldown(consecutive_losses + 1)
                          THEN bar.name ELSE last_loss_date
              ELSE /\ consecutive_losses' = 0
                   /\ UNCHANGED last_loss_date
  /\ UNCHANGED <<transactions, buy_price>>

Idle ==
  /\ last_print' = NoPrint
  /\ UNCHANGED <<balance, shares, transactions, buy_price,
                 consecutive_losses, last_loss_date, fills, last_side,
                 last_sell>>

\* one iteration of "for i in range(1, len(stock_df))": the cooldown check,
\* then the if / elif of the BUY and the SELL branch
LoopStep ==
  /\ pc = "loop"
  /\ i < MaxBars
  /\ LET buy_signal == BuySignal
     IN  \E gap \in Gaps, close \in Closes :
           LET name == date + gap
           IN  /\ date' = name
               /\ closes' = Trim(Append(closes, close))
               /\ IF InCooldown(name) THEN Skip
                  ELSE IF buy_signal
                    THEN \E today \in BuyRows(name, close) : Buy(today)
                  ELSE IF shares > 0
                    THEN \E today \in SellRows(name, close) :
                           IF SellSignal(today) THEN Sell(today) ELSE Idle
                  ELSE Idle
  /\ i' = i + 1
  /\ UNCHANGED <<pc, num_stocks, ma_short, ma_long, given, initial_balance,
                 stock_value>>
  /\ UNCHANGED <<table_vars, grid_vars, ctl_vars, ic_vars, retry_vars>>

\* stock_df has no further row: return transactions, balance, shares.
\* The locals of the call end with it; fills, last_side and last_sell, which
\* describe the output printed so far, stay, and so does the table of the
\* caller: i is its number of rows, closes its last close.
Return ==
  /\ pc \in {"rows", "loop"}
  /\ pc' = "done"
  /\ closes' = IF closes = <<>> THEN <<>> ELSE <<closes[Len(closes)]>>
  /\ date' = NoDate
  /\ buy_price' = 0
  /\ consecutive_losses' = 0
  /\ last_loss_date' = NoDate
  /\ last_print' = NoPrint
  /\ given' = NoWindows
  /\ UNCHANGED <<num_stocks, ma_short, ma_long, initial_balance, i, balance,
                 shares, transactions, fills, last_side, last_sell,
                 stock_value>>
  /\ UNCHANGED <<table_vars, grid_vars, ctl_vars, ic_vars, retry_vars>>

\* execute_strategy after the call: the value of the shares still held, at
\* the close of the last row of the table (.iloc[-1] of a table without rows
\* raises IndexError)
Valuation ==
  /\ pc = "done"
  /\ IF closes = <<>>
       THEN /\ pc' = "raised"
            /\ UNCHANGED stock_value
       ELSE /\ pc' = "valued"
            /\ stock_value' = StockValue(shares, closes[Len(closes)])
  /\ UNCHANGED <<num_stocks, ma_short, ma_long, given, initial_balance, i,
                 closes, date, balance, shares, transactions, buy_price,
                 consecutive_losses, last_loss_date, last_print, fills,
                 last_side, last_sell>>
  /\ UNCHANGED <<table_vars, grid_vars, ctl_vars, ic_vars, retry_vars>>

Next == ExecuteStrategy \/ FirstRow \/ LoopStep \/ Return \/ Valuation

Spec == Init /\ [][Next]_vars

\* ---- simulate_strategy on a whole table ---------------------------------
\* Row k of the source (from 0) is rows[k + 1]; a column holds, for each row,
\* the sum of the window (the mean times the window) or NaN.

\* "stock_df['close'].rolling(window=w).mean()"
Rolling(rows, w) ==
  [k \in 1..Len(rows) |->
     IF k >= w THEN SumSeq([j \in 1..w |-> rows[k - w + j].close])
               ELSE NaN]

\* the two assignments to stock_df[f'ma{...}'], the second one last
AddColumns(df, s, l) ==
  [df EXCEPT !.ma = (l :> Rolling(df.rows, l)) @@ (s :> Rolling(df.rows, s))
                      @@ df.ma]

\* row[f'ma{s}'] < row[f'ma{l}'] and >=, False when either is NaN
ColumnBelow(df, k, s, l) ==
  LET a == df.ma[s][k + 1]
      b == df.ma[l][k + 1]
  IN  a # NaN /\ b # NaN /\ a * l < b * s

ColumnAtOrAbove(df, k, s, l) ==
  LET a == df.ma[s][k + 1]
      b == df.ma[l][k + 1]
  IN  a # NaN /\ b # NaN /\ a * l >= b * s

\* the row after row k, the last row for itself
Today_Next(df, k) ==
  IF k + 2 <= Len(df.rows) THEN df.rows[k + 2] ELSE df.rows[k + 1]

\* "today = stock_df.iloc[i]"
Today(df, k) == df.rows[k + 1]

\* the locals of a call that survive from the call before it
Locals_Carried(old, bal) ==
  IF old = NoRun
    THEN [NoRun EXCEPT !.balance = Scale * bal]
    ELSE [old EXCEPT !.side = "-", !.qty = 0, !.price = 0]

\* the locals at the start of a call
Locals(old, bal) == [NoRun EXCEPT !.balance = Scale * bal]

\* the body of the loop for row k, from the locals st to the locals after it
LoopBody(df, s, l, k, st) ==
  LET today == Today(df, k)
      quiet == [st EXCEPT !.side = "-", !.qty = 0, !.price = 0]
  IN  IF st.last_loss_date # NoDate /\ k <= st.last_loss_date + CooldownDays
        THEN quiet
      ELSE IF /\ k >= 2
              /\ ColumnBelow(df, k - 2, s, l)
              /\ ColumnAtOrAbove(df, k - 1, s, l)
              /\ st.shares = 0
        THEN LET price == BuyPrice(today)
                 shares_to_buy == SharesToBuy(st.balance, price)
                 cost == shares_to_buy * price * Scale
             IN  [st EXCEPT !.buy_price = price,
                            !.balance = st.balance - cost,
                            !.shares = st.shares + shares_to_buy,
                            !.side = "B", !.qty = shares_to_buy,
                            !.price = Scale * price]
      ELSE IF /\ st.shares > 0
              /\ \/ Scale * today.high >= UpPct * st.buy_price
                 \/ Scale * today.low <= DownPct * st.buy_price
        THEN LET sell_price ==
                   IF Scale * today.high >= UpPct * st.buy_price
                     THEN UpPct * st.buy_price ELSE DownPct * st.buy_price
                 loss == sell_price < Scale * st.buy_price
             IN  [st EXCEPT
                    !.balance = st.balance + st.shares * sell_price,
                    !.shares = 0,
                    !.consecutive_losses =
                       IF loss THEN st.consecutive_losses + 1 ELSE 0,
                    !.last_loss_date =
                       IF loss /\ StartsCooldown(st.consecutive_losses + 1)
                         THEN k ELSE st.last_loss_date,
                    !.side = "S", !.qty = st.shares, !.price = sell_price]
      ELSE quiet

\* the tables of n rows, without ma columns
Tables(n) == { [rows |-> r, ma |-> <<>>] : r \in [1..n -> TableBars] }

\* the table df with its rows after row c replaced by those of other
Spliced(df, other, c) ==
  [df EXCEPT !.rows = [k \in 1..Len(df.rows) |->
                         IF k - 1 <= c THEN df.rows[k] ELSE other.rows[k]]]

\* -- two calls side by side, on two tables that agree up to row cut
TwinInit ==
  /\ pc = "twin_call"
  /\ \E w \in TableWindows : ma_short = w[1] /\ ma_long = w[2]
  /\ stock_df \in Tables(TableLen)
  /\ cut \in 0..(TableLen - 1)
  /\ \E other \in Tables(TableLen) : other_df = Spliced(stock_df, other, cut)
  /\ run_a = NoRun /\ run_b = NoRun
  /\ run_no = 0 /\ trace = <<>> /\ first = NoResult
  /\ i = 0
  /\ NoReplay /\ NoGrid /\ NoCtl /\ NoController /\ NoRetry

\* both calls up to the loop: the locals and the two columns
TwinEnter ==
  /\ pc = "twin_call"
  /\ pc' = "twin_loop"
  /\ run_a' = Locals(run_a, initial_balance)
  /\ run_b' = Locals(run_b, initial_balance)
  /\ stock_df' = AddColumns(stock_df, ma_short, ma_long)
  /\ other_df' = AddColumns(other_df, ma_short, ma_long)
  /\ i' = 1
  /\ UNCHANGED <<ma_short, ma_long, cut, run_no, trace, first>>
  /\ UNCHANGED <<replay_vars, grid_vars, ctl_vars, ic_vars, retry_vars>>

\* row i in both calls
TwinStep ==
  /\ pc = "twin_loop"
  /\ i < Len(stock_df.rows)
  /\ run_a' = LoopBody(stock_df, ma_short, ma_long, i, run_a)
  /\ run_b' = LoopBody(other_df, ma_short, ma_long, i, run_b)
  /\ i' = i + 1
  /\ UNCHANGED <<pc, ma_short, ma_long, stock_df, other_df, cut, run_no,
                 trace, first>>
  /\ UNCHANGED <<replay_vars, grid_vars, ctl_vars, ic_vars, retry_vars>>

TwinReturn ==
  /\ pc = "twin_loop"
  /\ i >= Len(stock_df.rows)
  /\ pc' = "twin_done"
  /\ UNCHANGED <<ma_short, ma_long, i, stock_df, other_df, cut, run_a, run_b,
                 run_no, trace, first>>
  /\ UNCHANGED <<replay_vars, grid_vars, ctl_vars, ic_vars, retry_vars>>

TwinNext == TwinEnter \/ TwinStep \/ TwinReturn

TwinSpec == TwinInit /\ [][TwinNext]_vars

\* -- two calls one after the other, on the same table
TwiceInit ==
  /\ pc = "twice_call"
  /\ \E w \in TableWindows : ma_short = w[1] /\ ma_long = w[2]
  /\ \E n \in 0..TableLen : stock_df \in Tables(n)
  /\ other_df = NoTable /\ cut = 0
  /\ run_a = NoRun /\ run_b = NoRun
  /\ run_no = 1 /\ trace = <<>> /\ first = NoResult
  /\ i = 0
  /\ NoReplay /\ NoGrid /\ NoCtl /\ NoController /\ NoRetry

\* the call up to the loop: the locals, and the two columns written into the
\* table of the caller
TwiceEnter ==
  /\ pc = "twice_call"
  /\ pc' = "twice_loop"
  /\ run_a' = Locals(run_a, initial_balance)
  /\ stock_df' = AddColumns(stock_df, ma_short, ma_long)
  /\ trace' = <<>>
  /\ i' = 1
  /\ UNCHANGED <<ma_short, ma_long, other_df, cut, run_b, run_no, first>>
  /\ UNCHANGED <<replay_vars, grid_vars, ctl_vars, ic_vars, retry_vars>>

TwiceStep ==
  /\ pc = "twice_loop"
  /\ i < Len(stock_df.rows)
  /\ LET st == LoopBody(stock_df, ma_short, ma_long, i, run_a)
     IN  /\ run_a' = st
         /\ trace' = IF st.side = "-" THEN trace
                     ELSE Append(trace, [side |-> st.side, qty |-> st.qty,
                                         price |-> st.price, row |-> i])
  /\ i' = i + 1
  /\ UNCHANGED <<pc, ma_short, ma_long, stock_df, other_df, cut, run_b,
                 run_no, first>>
  /\ UNCHANGED <<replay_vars, grid_vars, ctl_vars, ic_vars, retry_vars>>

\* the call returns; after the first call the caller calls again, with the
\* same table and the same windows
TwiceReturn ==
  /\ pc = "twice_loop"
  /\ i >= Len(stock_df.rows)
  /\ IF run_no = 1
       THEN /\ pc' = "twice_call"
            /\ run_no' = 2
            /\ first' = [trace |-> trace, balance |-> run_a.balance,
                         shares |-> run_a.shares]
       ELSE /\ pc' = "twice_done"
            /\ UNCHANGED <<run_no, first>>
  /\ UNCHANGED <<ma_short, ma_long, i, stock_df, other_df, cut, run_a, run_b,
                 trace>>
  /\ UNCHANGED <<replay_vars, grid_vars, ctl_vars, ic_vars, retry_vars>>

TwiceNext == TwiceEnter \/ TwiceStep \/ TwiceReturn

TwiceSpec == TwiceInit /\ [][TwiceNext]_vars

\* ---- the grid backtest of rangetest.py ----------------------------------
\* "int(initial_market_value_target / base_price)"
InitialPosition(price) == InitialMarketValueTarget \div price

\* "int(transaction_value_target / base_price)": buy_amount and sell_amount
TransactionAmount(price) == TransactionValueTarget \div price

\* "transaction_amount_value * commission_rate" and "* stamp_duty_rate"; the
\* prices tried make both whole numbers
Commission(value) == (value * CommissionPer10k) \div 10000
StampDuty(value) == (value * StampDutyPer10k) \div 10000

\* "tick_price >= current_price * (1 + b)"
SellTick(tick_price) ==
  /\ position >= TransactionAmount(base_price)
  /\ tick_price * 100 >= current_price * (100 + SellPercent)

\* "tick_price <= current_price * (1 - a)"
BuyTick(tick_price) == tick_price * 100 <= current_price * (100 - BuyPercent)

\* the price of the last row with ticktime <= last_transaction_time, or of
\* the last row when nothing was traded
FinalClosePrice ==
  IF last_transaction_time # NoTime
    THEN LET upto == { k \in 1..Len(stock_data) :
                        stock_data[k].ticktime <= last_transaction_time }
             last == CHOOSE k \in upto : \A m \in upto : m <= k
         IN  stock_data[last].price
    ELSE stock_data[Len(stock_data)].price

\* the state at the start of the loop over the ticks
GridInit ==
  /\ pc = "grid_loop"
  /\ base_price \in BasePrices
  /\ position = InitialPosition(base_price)
  /\ cash = InitialCash
  /\ current_price = base_price
  /\ last_transaction_time = NoTime
  /\ stock_data = <<>>
  /\ final_close_price = 0 /\ final_market_value = 0
  /\ ma_short = 1 /\ ma_long = 1 /\ i = 0
  /\ NoReplay /\ NoTables /\ NoCtl /\ NoController /\ NoRetry

\* one row of the tick table: the sell logic, else the buy logic
GridTick ==
  /\ pc = "grid_loop"
  /\ Len(stock_data) < MaxTicks
  /\ \E tick_price \in TickPrices :
       LET time == Len(stock_data) + 1
           amount == TransactionAmount(base_price)
           transaction_amount_value == tick_price * amount
           commission == Commission(transaction_amount_value)
           stamp_duty == StampDuty(transaction_amount_value)
       IN  /\ stock_data' = Append(stock_data,
                                   [ticktime |-> time, price |-> tick_price])
           /\ IF SellTick(tick_price)
                THEN /\ cash' = cash + transaction_amount_value
                                   - commission - stamp_duty
                     /\ position' = position - amount
                     /\ current_price' = tick_price
                     /\ last_transaction_time' = time
              ELSE IF BuyTick(tick_price)
                THEN /\ cash' = cash - (transaction_amount_value + commission)
                     /\ position' = position + amount
                     /\ current_price' = tick_price
                     /\ last_transaction_time' = time
              ELSE UNCHANGED <<cash, position, current_price,
                               last_transaction_time>>
  /\ UNCHANGED <<pc, ma_short, ma_long, i, base_price, final_close_price,
                 final_market_value>>
  /\ UNCHANGED <<replay_vars, table_vars, ctl_vars, ic_vars, retry_vars>>

\* after the loop: the price and the value of the position that is reported
GridFinish ==
  /\ pc = "grid_loop"
  /\ stock_data # <<>>
  /\ pc' = "grid_done"
  /\ final_close_price' = FinalClosePrice
  /\ final_market_value' = FinalClosePrice * position
  /\ UNCHANGED <<ma_short, ma_long, i, base_price, stock_data, position, cash,
                 current_price, last_transaction_time>>
  /\ UNCHANGED <<replay_vars, table_vars, ctl_vars, ic_vars, retry_vars>>

GridNext == GridTick \/ GridFinish

GridSpec == GridInit /\ [][GridNext]_vars

\* ---- main_control_loop of auto_analyze_stocks.py ------------------------
\* A text is a sequence of digits.

\* str() of a number: its digits, without leading zeros
RECURSIVE Decimal(_)
Decimal(n) == IF n < 10 THEN <<n>> ELSE Append(Decimal(n \div 10), n % 10)

\* text.zfill(width)
RECURSIVE Zfill(_, _)
Zfill(text, width) ==
  IF Len(text) >= width THEN text ELSE Zfill(<<0>> \o text, width)

\* the code of a stock as the exchange writes it
CodeText(n) == Zfill(Decimal(n), CodeWidth)

\* "str(code)" of the cell of stock n in the code column of df: the column
\* holds the text when the list was downloaded, the number when the list
\* was read back from the csv cache
StrOfCode(df, n) == IF df.kind = "str" THEN CodeText(n) ELSE Decimal(n)

\* "stock_code = str(stock_code); stock_code = stock_code.zfill(6)"
Canonical(text) == Zfill(text, CodeWidth)

IsStockAnalyzed(text, records) == text \in records

\* the stock that text names, under either way of writing it, has a key in
\* records
AlreadyAnalyzed(text, records) ==
  \E n \in StockCodes :
    /\ text \in {Decimal(n), CodeText(n)}
    /\ {Decimal(n), CodeText(n)} \cap records # {}

GetUnanalyzedStocks(df, records) ==
  { c \in { StrOfCode(df, n) : n \in StockCodes } :
      ~IsStockAnalyzed(c, records) }

GetHighTurnoverStocks(df) == { StrOfCode(df, n) : n \in df.high }

\* the hours before StartHour
IsExecutionTime_Daytime(h) == h < StartHour

IsExecutionTime(h) == h >= StartHour \/ h < EndHour

\* what update_stocks_list_on_trading_day may return
StockLists == [kind : {"str", "int"}, high : SUBSET StockCodes]

\* wait_until_next_trading_day_start: the slot in which it returns
ExecutionSlot(k) ==
  IF IsExecutionTime(HourSlots[k]) THEN k
  ELSE CHOOSE m \in k..Len(HourSlots) :
         /\ IsExecutionTime(HourSlots[m])
         /\ \A j \in k..(m - 1) : ~IsExecutionTime(HourSlots[j])

\* the clock after the time that an iteration takes: none to speak of, or
\* enough to reach the next slot
Later(k, day, pass) ==
  IF pass = 0 THEN <<k, day>>
  ELSE IF k < Len(HourSlots) THEN <<k + 1, day>>
  ELSE IF day < MaxDays THEN <<1, day + 1>>
  ELSE <<k, day>>

\* ---- APICallIntervalController -------------------------------------------
\* the fields of the controller that the calls below read and write, with
\* what the last call returned
Controller ==
  [consecutive_failures |-> consecutive_failures,
   is_extended_interval |-> is_extended_interval,
   need_wait |-> need_wait]

\* record_success that leaves the interval as it is
RecordSuccess_KeepInterval(c) ==
  [consecutive_failures |-> 0,
   is_extended_interval |-> c.is_extended_interval,
   need_wait |-> FALSE]

RecordSuccess(c) ==
  [consecutive_failures |-> 0,
   is_extended_interval |-> FALSE,
   need_wait |-> FALSE]

RecordFailure(c, threshold) ==
  LET n == c.consecutive_failures + 1
      reached == n >= threshold /\ ~c.is_extended_interval
  IN  [consecutive_failures |-> n,
       is_extended_interval |-> c.is_extended_interval \/ reached,
       need_wait |-> reached]

\* random.randint(lo, hi): the least and the largest value it may give
Intervals(lo, hi) == {lo, hi}

\* what get_next_interval may return
GetNextInterval(extended) ==
  IF extended THEN Intervals(ExtendedMin, ExtendedMax)
              ELSE Intervals(NormalMin, NormalMax)

Thresholds == 1..MaxFailures          \* failure_threshold of a controller

IcInit ==
  /\ pc = "controller"
  /\ failure_threshold \in Thresholds
  /\ consecutive_failures = 0 /\ is_extended_interval = FALSE
  /\ need_wait = FALSE /\ interval = 0
  /\ ma_short = 1 /\ ma_long = 1 /\ i = 0
  /\ NoReplay /\ NoTables /\ NoGrid /\ NoCtl /\ NoRetry

IcRecordSuccess ==
  /\ pc = "controller"
  /\ consecutive_failures' = RecordSuccess(Controller).consecutive_failures
  /\ is_extended_interval' = RecordSuccess(Controller).is_extended_interval
  /\ need_wait' = RecordSuccess(Controller).need_wait
  /\ UNCHANGED <<pc, ma_short, ma_long, i, failure_threshold, interval>>
  /\ UNCHANGED <<replay_vars, table_vars, grid_vars, ctl_vars, retry_vars>>

IcRecordFailure ==
  /\ pc = "controller"
  /\ consecutive_failures < MaxFailures
  /\ LET c == RecordFailure(Controller, failure_threshold)
     IN  /\ consecutive_failures' = c.consecutive_failures
         /\ is_extended_interval' = c.is_extended_interval
         /\ need_wait' = c.need_wait
  /\ UNCHANGED <<pc, ma_short, ma_long, i, failure_threshold, interval>>
  /\ UNCHANGED <<replay_vars, table_vars, grid_vars, ctl_vars, retry_vars>>

IcGetNextInterval ==
  /\ pc = "controller"
  /\ interval' \in GetNextInterval(is_extended_interval)
  /\ UNCHANGED <<pc, ma_short, ma_long, i, failure_threshold,
                 consecutive_failures, is_extended_interval, need_wait>>
  /\ UNCHANGED <<replay_vars, table_vars, grid_vars, ctl_vars, retry_vars>>

IcNext == IcRecordSuccess \/ IcRecordFailure \/ IcGetNextInterval

IcSpec == IcInit /\ [][IcNext]_vars

\* ---- analyze_stock and the loop around it -------------------------------
\* how a call of analyze_stock ends: an exception before the download has
\* given its result, the download giving nothing, the upload giving no
\* file id, the model giving no response, an exception after the download,
\* the conversion to HTML failing, or all steps done
Outcomes == {"exception_before", "download", "upload", "llm",
             "exception_after", "html", "ok"}

\* the controller after a call of analyze_stock that ends in outcome o
AnalyzeStock(o, c, threshold) ==
  IF o \in {"exception_before", "download"}
    THEN RecordFailure(c, threshold)
  ELSE IF o \in {"upload", "exception_after"}
    THEN RecordFailure(RecordSuccess(c), threshold)
  ELSE RecordSuccess(c)

\* what analyze_stock returns
Returns(o) == o = "ok"

\* the keys of records after a call of analyze_stock on text that ends in
\* outcome o: every call marks the stock
MarkStockAnalyzed_Always(o, text, records) == records \cup {Canonical(text)}

MarkStockAnalyzed(o, text, records) ==
  IF Returns(o) THEN records \cup {Canonical(text)} ELSE records

\* the flag is raised on the first iteration as on any other
IsNewCycle_Restart(is_first, now_exec, last_exec, new_date, new_mode) ==
  /\ now_exec
  /\ ~last_exec \/ new_date \/ new_mode

IsNewCycle(is_first, now_exec, last_exec, new_date, new_mode) ==
  /\ ~is_first
  /\ now_exec
  /\ ~last_exec \/ new_date \/ new_mode

\* the cache file of the stock list when the list is asked for: written
\* today, written on an earlier day, or not there
CacheStates == {"today", "old", "none"}

\* update_stocks_list_on_trading_day: how the list it returns holds the
\* codes, or "raise" when the download fails and there is no cache file
UpdateStocksList(downloaded, cache) ==
  IF cache = "today" THEN "int"
  ELSE IF downloaded THEN "str"
  ELSE IF cache = "old" THEN "int"
  ELSE "raise"

CtlInit ==
  /\ pc = "ctl_loop"
  /\ debug_mode \in BOOLEAN
  /\ slot \in 1..Len(HourSlots)
  /\ current_date = 1
  /\ all_stocks_df \in StockLists
  /\ analyzed_records \in SUBSET { CodeText(n) : n \in StockCodes }
  /\ record_file = analyzed_records
  /\ last_execution_time = FALSE
  /\ last_analysis_mode = NoMode
  /\ last_analysis_date = 0
  /\ is_first_iteration = TRUE
  /\ is_new_cycle = FALSE
  /\ last_analysis = NoAnalysis
  /\ false_streak = 0
  /\ NoController
  /\ ma_short = 1 /\ ma_long = 1 /\ i = 0
  /\ NoReplay /\ NoTables /\ NoGrid /\ NoRetry

\* the rest of an iteration, from "last_execution_time = ..." on, up to
\* the call of analyze_stock: records and df are analyzed_records and
\* all_stocks_df as the check of the cycle has left them
CtlRest(current_analysis_mode, current_execution_time, records, file, df) ==
  LET unanalyzed_stocks ==
        IF current_analysis_mode = "high_turnover"
          THEN { c \in GetHighTurnoverStocks(df) :
                   ~IsStockAnalyzed(c, records) }
          ELSE GetUnanalyzedStocks(df, records)
  IN  /\ all_stocks_df' = df
      /\ last_execution_time' = current_execution_time
      /\ last_analysis_mode' = current_analysis_mode
      /\ last_analysis_date' = current_date
      /\ IF ~debug_mode /\ ~current_execution_time
           THEN /\ pc' = pc
                /\ analyzed_records' = records
                /\ record_file' = file
                /\ last_analysis' = NoAnalysis
                /\ slot' = ExecutionSlot(slot)
                /\ UNCHANGED <<current_date, false_streak, ic_vars>>
         ELSE IF unanalyzed_stocks = {}
           THEN \E pass \in {0, 1} :
                /\ pc' = pc
                /\ analyzed_records' = records
                /\ record_file' = file
                /\ last_analysis' = NoAnalysis
                /\ slot' = Later(ExecutionSlot(slot), current_date, pass)[1]
                /\ current_date' =
                     Later(ExecutionSlot(slot), current_date, pass)[2]
                /\ UNCHANGED <<false_streak, ic_vars>>
         ELSE \E stock_to_analyze \in unanalyzed_stocks :
                /\ pc' = "ctl_analyze"
                /\ analyzed_records' = records
                /\ record_file' = file
                /\ last_analysis' =
                     [code |-> stock_to_analyze, ok |-> FALSE,
                      repeat |-> AlreadyAnalyzed(stock_to_analyze, records)]
                /\ UNCHANGED <<slot, current_date, false_streak, ic_vars>>

\* one iteration of "while True", up to the call of analyze_stock when the
\* iteration comes to it
CtlIterate ==
  /\ pc = "ctl_loop"
  /\ \E current_analysis_mode \in Modes :
       LET hour == HourSlots[slot]
           current_execution_time ==
             IF current_analysis_mode = "all_random"
               THEN TRUE ELSE IsExecutionTime(hour)
           cycle ==
             IsNewCycle(is_first_iteration, current_execution_time,
                        last_execution_time,
                        current_date # last_analysis_date,
                        current_analysis_mode # last_analysis_mode)
       IN  /\ is_new_cycle' = cycle
           /\ is_first_iteration' = FALSE
           /\ IF ~cycle
                THEN CtlRest(current_analysis_mode, current_execution_time,
                             analyzed_records, record_file, all_stocks_df)
                ELSE \E kind \in { UpdateStocksList(downloaded, cache) :
                                      downloaded \in BOOLEAN,
                                      cache \in CacheStates },
                        high \in SUBSET StockCodes :
                       LET file == {}
                       IN  IF kind = "raise"
                             THEN /\ pc' = "ctl_exit"
                                  /\ analyzed_records' = {}
                                  /\ record_file' = file
                                  /\ last_analysis' = NoAnalysis
                                  /\ UNCHANGED <<all_stocks_df, slot,
                                        current_date, last_execution_time,
                                        last_analysis_mode,
                                        last_analysis_date, false_streak,
                                        ic_vars>>
                             ELSE CtlRest(current_analysis_mode,
                                          current_execution_time, {}, file,
                                          [kind |-> kind, high |-> high])
  /\ UNCHANGED <<ma_short, ma_long, i, debug_mode>>
  /\ UNCHANGED <<replay_vars, table_vars, grid_vars, retry_vars>>

\* the call of analyze_stock on the stock chosen, then get_next_interval
\* and the sleep that ends the iteration
AnalyzeStockCall ==
  /\ pc = "ctl_analyze"
  /\ \E call \in { [c |-> AnalyzeStock(o, Controller, failure_threshold),
                      marked |-> MarkStockAnalyzed(o, last_analysis.code,
                                                   analyzed_records),
                      ok |-> Returns(o)] : o \in Outcomes },
        pass \in {0, 1} :
       LET c == call.c
           marked == call.marked
       IN  /\ c.consecutive_failures <= MaxFailures
           /\ analyzed_records' = marked
           /\ record_file' = IF call.ok THEN marked ELSE record_file
           /\ last_analysis' = [last_analysis EXCEPT !.ok = call.ok]
           /\ false_streak' =
                IF call.ok THEN 0
                ELSE IF false_streak < FailureThreshold
                  THEN false_streak + 1
                ELSE false_streak
           /\ consecutive_failures' = c.consecutive_failures
           /\ is_extended_interval' = c.is_extended_interval
           /\ interval' \in GetNextInterval(c.is_extended_interval)
           /\ slot' = Later(slot, current_date, pass)[1]
           /\ current_date' = Later(slot, current_date, pass)[2]
  /\ pc' = "ctl_loop"
  /\ UNCHANGED <<ma_short, ma_long, i, debug_mode, all_stocks_df,
                 last_execution_time, last_analysis_mode, last_analysis_date,
                 is_first_iteration, is_new_cycle, failure_threshold,
                 need_wait>>
  /\ UNCHANGED <<replay_vars, table_vars, grid_vars, retry_vars>>

CtlNext == CtlIterate \/ AnalyzeStockCall

CtlSpec == CtlInit /\ [][CtlNext]_vars

\* ---- the retry wrappers --------------------------------------------------
RetryFuncs == {"fetch_with_retry", "get_stock_data_with_retry"}

CallEvent(gave) == [kind |-> "call", gave |-> gave, secs |-> 0]
SleepEvent(secs) == [kind |-> "sleep", gave |-> NoValue, secs |-> secs]

\* "for attempt in range(...)": the number of rounds of the loop
Retries(f) == IF f = "fetch_with_retry" THEN MAX_RETRIES ELSE DownloadRetries

\* the seconds slept by an except clause
Delay(f) == IF f = "fetch_with_retry" THEN RETRY_DELAY ELSE 5

\* the except clause sleeps in every round
ExceptClause_SleepAlways(f, a) == "sleep"

\* the except clause of round a: fetch_with_retry sleeps when a further
\* round follows and raises otherwise; get_stock_data_with_retry sleeps in
\* every round and raises after the loop
ExceptClause(f, a) ==
  IF f = "fetch_with_retry"
    THEN IF a < MAX_RETRIES - 1 THEN "sleep" ELSE "raise"
    ELSE "sleep"

\* how the function ends when the loop runs out of rounds:
\* fetch_with_retry has no statement after the loop and returns None,
\* get_stock_data_with_retry raises
AfterLoop(f) ==
  IF f = "fetch_with_retry" THEN "retry_returned" ELSE "retry_raised"

RetryInit ==
  /\ pc = "retry_call"
  /\ func \in RetryFuncs
  /\ attempt = 0 /\ events = <<>> /\ result = NoValue
  /\ ma_short = 1 /\ ma_long = 1 /\ i = 0
  /\ NoReplay /\ NoTables /\ NoGrid /\ NoCtl /\ NoController

\* the try block of one round: the call of the API, and the return of what
\* it gave when it raised nothing
RetryCall ==
  /\ pc = "retry_call"
  /\ \E gave \in ApiValues \cup ApiErrors :
       /\ events' = Append(events, CallEvent(gave))
       /\ IF gave \in ApiValues
            THEN pc' = "retry_returned" /\ result' = gave
            ELSE pc' = "retry_except" /\ UNCHANGED result
  /\ UNCHANGED <<func, attempt, ma_short, ma_long, i>>
  /\ UNCHANGED <<replay_vars, table_vars, grid_vars, ctl_vars, ic_vars>>

\* the except clause of the round, and the step to the next round
RetryExcept ==
  /\ pc = "retry_except"
  /\ IF ExceptClause(func, attempt) = "raise"
       THEN /\ pc' = "retry_raised"
            /\ UNCHANGED <<attempt, events, result>>
       ELSE /\ events' = Append(events, SleepEvent(Delay(func)))
            /\ attempt' = attempt + 1
            /\ IF attempt + 1 < Retries(func)
                 THEN pc' = "retry_call" /\ UNCHANGED result
                 ELSE /\ pc' = AfterLoop(func)
                      /\ result' = IF AfterLoop(func) = "retry_returned"
                                     THEN "None" ELSE result
  /\ UNCHANGED <<func, ma_short, ma_long, i>>
  /\ UNCHANGED <<replay_vars, table_vars, grid_vars, ctl_vars, ic_vars>>

RetryNext == RetryCall \/ RetryExcept

RetrySpec == RetryInit /\ [][RetryNext]_vars

\* ---- what one step did, read off the state before and after it ---------
Stepped == pc = "loop" /\ i' = i + 1
Bought == Stepped /\ last_print'.side = "B"
BuyFill == Bought /\ last_print'.shares > 0
Sold == Stepped /\ last_print'.side = "S"

\* C1: the BUY branch runs only on a bar where shares held is 0, and the
\* fill before a BUY fill, if any, is a SELL: never two BUY fills in a row.
C1_SinglePosition ==
  [][/\ Bought => shares = 0
     /\ BuyFill => (last_side # "B" /\ shares' > 0)]_vars

\* a second BUY fill, after a BUY and a SELL
C1_Witness == pc = "loop" /\ last_print.side = "B" /\ shares > 0 /\ fills >= 3

\* C2: a BUY lowers the balance by exactly shares * price, a SELL raises it
\* by exactly shares * price, no other step changes it, and it is never
\* negative.
C2_CashConservation ==
  [][/\ Bought => balance' = balance - last_print'.shares * last_print'.price
     /\ Sold => balance' = balance + last_print'.shares * last_print'.price
     /\ ~(Bought \/ Sold) => balance' = balance
     /\ balance >= 0 /\ balance' >= 0]_vars

\* a SELL after a BUY that spent part of the balance
C2_Witness ==
  /\ pc = "loop" /\ last_print.side = "S" /\ last_print.shares > 0
  /\ balance = last_print.balance /\ balance # Scale * initial_balance

\* C3: once the latest two SELLs were both losses, a BUY happens only on a
\* bar dated strictly after the date of the second one plus 60 days.
C3_CooldownEnforced ==
  [][(Bought /\ last_sell.loss /\ last_sell.prev_loss)
       => date' > last_sell.date + CooldownDays]_vars

\* a BUY after a cooldown
C3_Witness ==
  /\ pc = "loop" /\ last_print.side = "B" /\ last_print.shares > 0
  /\ last_sell.loss /\ last_sell.prev_loss
  /\ last_loss_date = last_sell.date

\* C4: a BUY executes at the open of the current bar; its share count is a
\* multiple of 100 and the largest one whose cost does not exceed the cash.
C4_LotRounding ==
  [][Bought =>
       LET n == last_print'.shares
           open == last_print'.row.open
       IN  /\ last_print'.price = Scale * open
           /\ buy_price' = open
           /\ shares' = shares + n
           /\ n % LotSize = 0
           /\ n * open * Scale <= balance
           /\ (n + LotSize) * open * Scale > balance]_vars

\* a BUY of whole lots that leaves cash over
C4_Witness ==
  /\ pc = "loop" /\ last_print.side = "B" /\ last_print.shares >= LotSize
  /\ balance > 0 /\ balance < Scale * LotSize * last_print.row.open

\* C5: when the entry signal fires and no share can be bought, no BUY line is
\* printed and cash, shares held, entry price, loss counter and cooldown
\* date are left as they were.
C5_ZeroQuantityNoOp ==
  [][(Stepped /\ BuySignal /\ ~InCooldown(date') /\ shares' = 0)
       => /\ last_print' = NoPrint
          /\ UNCHANGED <<balance, shares, buy_price, consecutive_losses,
                         last_loss_date>>]_vars

\* C6: a SELL on a bar whose high reaches the take-profit level and whose low
\* reaches the stop-loss level executes at the take-profit level and resets
\* the loss counter.
C6_TakeProfitFirst ==
  [][(/\ Sold
      /\ Scale * last_print'.row.high >= UpPct * buy_price
      /\ Scale * last_print'.row.low <= DownPct * buy_price)
       => /\ last_print'.price = UpPct * buy_price
          /\ consecutive_losses' = 0
          /\ ~last_sell'.loss
          /\ last_loss_date' = last_loss_date]_vars

\* such a SELL, right after a losing one
C6_Witness ==
  /\ pc = "loop" /\ last_print.side = "S"
  /\ Scale * last_print.row.high >= UpPct * buy_price
  /\ Scale * last_print.row.low <= DownPct * buy_price
  /\ last_sell.prev_loss

\* C7: a SELL happens only while a position is held and the high reaches the
\* take-profit level or the low reaches the stop-loss level of the entry
\* price; it sells the whole position at exactly one of the two levels; and
\* shares held goes down in no other way.
C7_ExitAtLevel ==
  [][/\ Sold =>
          /\ shares > 0
          /\ \/ Scale * last_print'.row.high >= UpPct * buy_price
             \/ Scale * last_print'.row.low <= DownPct * buy_price
          /\ last_print'.shares = shares
          /\ shares' = 0
          /\ last_print'.price =
               IF Scale * last_print'.row.high >= UpPct * buy_price
                 THEN UpPct * buy_price ELSE DownPct * buy_price
     /\ shares' < shares => Sold]_vars

\* a take-profit SELL on a bar whose high is above the level, whose price
\* is none of the high, low and close of the bar
C7_Witness ==
  /\ pc = "loop" /\ last_print.side = "S" /\ shares = 0
  /\ last_print.price = UpPct * buy_price
  /\ Scale * last_print.row.high > last_print.price
  /\ last_print.price \notin {Scale * last_print.row.low,
                               Scale * last_print.row.close}

\* C8 as stated: whenever shares held is 0 the entry price is absent, being
\* cleared by each SELL (absent is the initial value 0); whenever shares
\* held is > 0 the entry price is the price of the BUY that opened the
\* position and the cash is >= 0.
C8_EntryPriceCleared ==
  [][/\ Sold => buy_price' = 0
     /\ BuyFill => buy_price' = last_print'.row.open
     /\ (shares > 0 /\ shares' > 0) => buy_price' = buy_price
     /\ shares' > 0 => balance' >= 0]_vars

\* C8 amended: whenever shares held is > 0 the entry price is the open of
\* the bar of the BUY that opened the position and the cash is >= 0; a SELL
\* leaves the entry price as it is and only the BUY branch changes it, so
\* that with no shares held it is 0 before the first BUY and the price of
\* the latest BUY afterwards.
C8_EntryPriceKept ==
  [][/\ Sold => (buy_price' = buy_price /\ buy_price' > 0)
     /\ Bought => buy_price' = last_print'.row.open
     /\ ~Bought => (buy_price' = buy_price \/ pc' = "done")
     /\ shares' > 0 => balance' >= 0
     /\ (shares' > 0 /\ pc' = "loop") => buy_price' \in Prices]_vars

\* no shares held after a SELL, the entry price still that of the BUY
C8_Witness ==
  /\ pc = "loop" /\ last_print.side = "S" /\ shares = 0
  /\ buy_price \in Prices

\* C9 as stated: a BUY happens only when the short mean is at or below the
\* long mean on the earlier comparison bar and strictly above it on the
\* later one.
C9_CrossoverStrictLater ==
  [][Bought => (ShortAtOrBelowLong(i - 2) /\ ShortAboveLong(i - 1))]_vars

\* C9 amended: a BUY happens only when the short mean is strictly below the
\* long mean on the earlier comparison bar and at or above it on the later
\* one: equality on the later bar does trigger a BUY, equality on the
\* earlier bar prevents one.
C9_CrossoverStrictEarlier ==
  [][/\ Bought => (ShortBelowLong(i - 2) /\ ShortAtOrAboveLong(i - 1))
     /\ (Stepped /\ ~InCooldown(date') /\ shares = 0 /\ i >= 2
           /\ ShortBelowLong(i - 2) /\ ShortAtOrAboveLong(i - 1)) => Bought
     /\ (Stepped /\ ~ShortBelowLong(i - 2)) => ~Bought]_vars

\* a BUY after a later comparison bar on which the two means are equal
\* (i has moved on: the BUY row is i-1, the later comparison bar i-2)
C9_Witness ==
  /\ pc = "loop" /\ last_print.side = "B" /\ last_print.shares > 0
  /\ ma_short < ma_long
  /\ RollSum(i - 2, ma_short) * ma_long = RollSum(i - 2, ma_long) * ma_short

\* C10: the returned transaction list holds one record for every BUY and
\* every SELL that was executed.
C10_TransactionsComplete ==
  pc = "done" => Len(transactions) = fills

\* C11: on a table with no row, or with fewer rows than the long window,
\* simulate_strategy raises nothing, prints no B and no S line and returns
\* the balance it was given and no shares.
C11_ShortTableNoTrade ==
  [][/\ pc \in {"rows", "loop"} => pc' \in {"loop", "done"}
     /\ (Stepped /\ i' < ma_long)
          => /\ last_print' = NoPrint
             /\ balance' = balance /\ shares' = shares
     /\ (pc \in {"rows", "loop"} /\ pc' = "done" /\ i < ma_long)
          => /\ balance' = Scale * initial_balance
             /\ shares' = 0
             /\ fills' = 0 /\ last_side' = "-"
             /\ transactions' = <<>>]_vars

\* returned from a table of two rows, one of them gone through by the loop,
\* with a long window of more than two
C11_Witness ==
  /\ pc = "done" /\ i >= 2 /\ i < ma_long
  /\ balance = Scale * initial_balance /\ shares = 0

\* C12: a SELL below the entry price adds 1 to the loss counter and any other
\* SELL sets it to 0; a SELL starts a cooldown (last_loss_date becomes its
\* date) exactly when it is a loss and the SELL before it was a loss too, and
\* a SELL that is no loss leaves last_loss_date as it is.
C12_LossCounter ==
  [][/\ Sold =>
          LET loss == last_print'.price < Scale * buy_price
          IN  /\ consecutive_losses' = IF loss THEN consecutive_losses + 1 ELSE 0
              /\ (last_loss_date' = date') <=> (loss /\ last_sell.loss)
              /\ last_loss_date' \in {date', last_loss_date}
              /\ ~loss => last_loss_date' = last_loss_date
     /\ (Stepped /\ ~Sold)
          => UNCHANGED <<consecutive_losses, last_loss_date>>]_vars

\* a losing SELL right after a losing SELL: the cooldown starts on its date
C12_Witness ==
  /\ pc = "loop" /\ last_print.side = "S"
  /\ last_print.price < Scale * buy_price
  /\ last_sell.prev_loss
  /\ consecutive_losses = LossLimit /\ last_loss_date = date

\* C13: execute_strategy raises its configuration error, before any step of
\* the simulation, when the two windows are equal or one of them is <= 0.
C13_ConfigRejected ==
  [][(pc = "execute" /\ (ma_short = ma_long \/ ma_short <= 0 \/ ma_long <= 0))
       => pc' = "raised"]_vars

\* C14: given ma_short > ma_long, execute_strategy does not raise but goes
\* on with the two windows exchanged, which is the state it goes on with
\* when given them in the right order; simulate_strategy is never entered
\* with ma_short > ma_long.
C14_WindowsSwapped ==
  [][/\ (pc = "execute" /\ num_stocks >= 1 /\ ma_long >= 1
           /\ ma_short > ma_long)
          => /\ pc' = "rows"
             /\ ma_short' = ma_long /\ ma_long' = ma_short
     /\ (pc = "execute" /\ pc' = "rows" /\ ma_short <= ma_long)
          => UNCHANGED <<ma_short, ma_long>>
     /\ pc = "execute"
          => UNCHANGED <<num_stocks, initial_balance, i, closes, date,
                         balance, shares, transactions, buy_price,
                         consecutive_losses, last_loss_date, last_print,
                         fills, last_side, last_sell, stock_value>>
     /\ pc' \in {"rows", "loop"}
          => (1 <= ma_short' /\ ma_short' <= ma_long')
     /\ pc # "execute" => UNCHANGED <<ma_short, ma_long>>]_vars

\* simulate_strategy about to be called with the windows that were given
\* the other way round
C14_Witness ==
  /\ pc = "rows" /\ given[1] > given[2]
  /\ ma_short = given[2] /\ ma_long = given[1]

\* C15: when two tables agree on every row up to row cut, the line printed
\* for a row up to row cut (B, S or none, its price and its share count)
\* and the locals after that row are the same in the two calls, whatever
\* the rows after row cut are.
C15_NoLookAhead ==
  (pc = "twin_loop" /\ i - 1 <= cut) => run_a = run_b

\* a BUY on a row up to which the two tables agree, the row after it not
\* the same in the two
C15_Witness ==
  /\ pc = "twin_loop" /\ i - 1 <= cut /\ i < TableLen
  /\ run_a.side = "B" /\ run_a.qty > 0
  /\ stock_df.rows[i + 1] # other_df.rows[i + 1]

\* C16: a second call of simulate_strategy on the same table with the same
\* windows prints the same B and S lines and returns the same balance and
\* shares as the first, the columns the first call wrote into the table
\* notwithstanding.
C16_RepeatableRun ==
  pc = "twice_done"
    => first = [trace |-> trace, balance |-> run_a.balance,
                shares |-> run_a.shares]

\* a second call that has returned, after a BUY and a SELL, on the table
\* that holds the columns
C16_Witness ==
  /\ pc = "twice_done" /\ run_no = 2
  /\ Len(trace) >= 2 /\ trace[2].side = "S"
  /\ DOMAIN stock_df.ma = {ma_short, ma_long}

\* the daily engine values the shares still held at the close of the last
\* row of the table
DailyValueAtLastClose ==
  [][(pc = "done" /\ pc' = "valued")
       => stock_value' = shares * Scale * closes[Len(closes)]]_vars

\* C17: the value reported for the position still held at the end of a
\* backtest is the shares held times the close (the price) of the last row
\* of the price table, whichever row the last trade happened on.
C17_ValueAtLastBar ==
  pc = "grid_done"
    => final_market_value = position * stock_data[Len(stock_data)].price

\* C18: in the grid backtest the cash is never negative, a buy whose cost
\* plus commission exceeds the cash not being executed.
C18_CashNeverNegative ==
  pc \in {"grid_loop", "grid_done"} => cash >= 0

\* an iteration of the control loop that called analyze_stock
Analysed == pc = "ctl_loop" /\ pc' = "ctl_analyze"

C20_NoRepeat ==
  [][Analysed => ~last_analysis'.repeat]_vars

\* C28: no position is held while a cooldown is active: on every row that
\* the cooldown check skips (a loss date is set and the row is dated no
\* later than 60 days after it) the shares held are 0 before and after the
\* row, so the skip never suppresses the exit of an open position.
C28_NoPositionInCooldown ==
  [][(Stepped /\ last_loss_date # NoDate
        /\ date' <= last_loss_date + CooldownDays)
       => (shares = 0 /\ shares' = 0)]_vars

\* a row skipped by the cooldown check, some days after the SELL that
\* started the cooldown
C28_Witness ==
  /\ pc = "loop" /\ last_loss_date # NoDate
  /\ date > last_loss_date /\ date <= last_loss_date + CooldownDays
  /\ last_print = NoPrint /\ shares = 0 /\ last_sell.date = last_loss_date

\* the API calls among the events
Calls(evs) == { k \in 1..Len(evs) : evs[k].kind = "call" }

\* C27: fetch_with_retry calls the API at most MAX_RETRIES times; it returns
\* what the first call that succeeds gave, and calls no more after it; it
\* sleeps RETRY_DELAY between two calls only, never after the last one; it
\* raises once the last call has failed; it never returns without a call
\* that succeeded.
C27_BoundedRetry ==
  func = "fetch_with_retry" =>
    /\ Cardinality(Calls(events)) <= MAX_RETRIES
    /\ \A k \in 1..Len(events) :
         /\ (events[k].kind = "call" /\ events[k].gave \in ApiValues)
              => (k = Len(events) /\ pc = "retry_returned")
         /\ events[k].kind = "sleep"
              => /\ events[k].secs = RETRY_DELAY
                 /\ k > 1 /\ events[k - 1].kind = "call"
                 /\ k < Len(events) \/ pc = "retry_call"
    /\ pc = "retry_returned"
         => /\ events # <<>>
            /\ events[Len(events)] = CallEvent(result)
            /\ result \in ApiValues
    /\ pc = "retry_raised"
         => /\ Cardinality(Calls(events)) = MAX_RETRIES
            /\ events[Len(events)].kind = "call"

\* fetch_with_retry returned what the third call gave, after two calls that
\* failed and two sleeps
C27_Witness ==
  /\ func = "fetch_with_retry" /\ pc = "retry_returned"
  /\ Len(events) = 5 /\ result \in ApiValues

\* C23: for the interval controller, after any sequence of record_success
\* and record_failure calls, is_extended_interval is true exactly when
\* consecutive_failures >= failure_threshold; record_success sets
\* consecutive_failures to 0 and is_extended_interval to false;
\* get_next_interval returns a value between extended_min and extended_max
\* when the interval is extended and between normal_min and normal_max
\* otherwise; record_failure returns true only on the call that takes
\* consecutive_failures from below the threshold to the threshold.
C23_ControllerContract ==
  /\ [](pc = "controller"
          => (is_extended_interval
                <=> consecutive_failures >= failure_threshold))
  /\ [][IcRecordSuccess
          => (consecutive_failures' = 0 /\ ~is_extended_interval')]_vars
  /\ [][IcGetNextInterval
          => IF is_extended_interval
               THEN interval' \in ExtendedMin..ExtendedMax
               ELSE interval' \in NormalMin..NormalMax]_vars
  /\ [][(IcRecordFailure /\ need_wait')
          => (consecutive_failures < failure_threshold
              /\ consecutive_failures' = failure_threshold)]_vars

\* a controller with the threshold 3 after a fourth failure in a row, which
\* returned false, and a wait drawn from the extended range
C23_Witness ==
  /\ pc = "controller" /\ failure_threshold = FailureThreshold
  /\ consecutive_failures = FailureThreshold + 1
  /\ is_extended_interval /\ ~need_wait /\ interval = ExtendedMax

\* C21: main_control_loop runs until the operator interrupts it: no failure
\* inside an iteration (mode detection, refresh of the stock list, a failed
\* analysis, saving the records) makes the loop exit on its own.
C21_LoopNeverExits == pc # "ctl_exit"

\* a call of analyze_stock that directly follows one after which the
\* controller was at the threshold
AnalysedAtThreshold ==
  /\ Analysed
  /\ last_analysis.code # NoCode
  /\ consecutive_failures >= failure_threshold

\* C22: once the controller has reached failure_threshold (3) consecutive
\* failures, the next analyze_stock call is preceded by a wait of
\* failure_wait_time (15 minutes): the sleep at the end of the iteration
\* before, together with the longest wait that analyze_stock makes before
\* its download, comes to failure_wait_time at least.
C22_WaitAfterThreshold ==
  [][AnalysedAtThreshold => interval + NormalMax >= FailureWaitTime]_vars

\* C24: after failure_threshold consecutive analyze_stock calls that
\* returned False, whatever step failed, with no call that returned True
\* between them, the controller is in extended-interval mode and the wait
\* that follows is drawn from the extended range.
C24_ExtendedAfterFalseStreak ==
  (pc = "ctl_loop" /\ false_streak >= failure_threshold)
    => (is_extended_interval /\ interval \in ExtendedMin..ExtendedMax)

\* C25: the loop empties the analysed-records, and the record file, only
\* when a new cycle is detected: on an iteration that is not the first and
\* finds execution time, the iteration before having found none, or the
\* date or the mode having changed since; on the first iteration the
\* records loaded from the file are kept.
C25_ResetOnNewCycleOnly ==
  [][pc = "ctl_loop" =>
       LET entered ==
             /\ pc' # "ctl_exit"
             /\ last_execution_time' /\ ~last_execution_time
           changed ==
             /\ pc' # "ctl_exit"
             /\ last_execution_time' /\ last_execution_time
             /\ \/ last_analysis_date' # last_analysis_date
                \/ last_analysis_mode' # last_analysis_mode
       IN  /\ (~is_first_iteration /\ (entered \/ changed))
                => (analyzed_records' = {} /\ record_file' = {})
           /\ (is_first_iteration
                  \/ (pc' # "ctl_exit" /\ ~entered /\ ~changed))
                => (analyzed_records' = analyzed_records
                    /\ record_file' = record_file)]_vars

\* an iteration after the first has detected a new cycle, before any call
\* of analyze_stock: the records and the record file are empty after it
C25_Witness ==
  /\ pc \in {"ctl_loop", "ctl_analyze"} /\ is_new_cycle
  /\ analyzed_records = {} /\ record_file = {}
  /\ false_streak = 0 /\ consecutive_failures = 0 /\ interval = 0
  /\ last_analysis.code = NoCode

====
